---- MODULE Spec2Model ----
(***************************************************************************)
(* Model of the resilience control plane of the REST backend.              *)
(*                                                                         *)
(* CircuitBreaker (crates/monitoring/src/circuit_breaker.rs): every shared *)
(* memory access of call / is_open / on_success / on_failure and of the    *)
(* three transition_to_* helpers is one atomic step of a task, so that     *)
(* every interleaving of concurrent call() invocations is explored.  The   *)
(* two tokio RwLocks are modelled with their reader sets and their FIFO    *)
(* wait queues; a write guard is a statement temporary in the source       *)
(* (acquire, assign, release with no suspension in between) and is         *)
(* therefore never held across steps.                                      *)
(*                                                                         *)
(* rate_limit_middleware (crates/api/src/handlers/health.rs): each request *)
(* builds its own limiter, checks it once and follows one arm of the       *)
(* match (specification SpecRateLimit).                                    *)
(*                                                                         *)
(* InMemoryFeatureFlagService (crates/monitoring/src/feature_flags.rs):    *)
(* the store with set_flag / delete_flag and the evaluation of is_enabled  *)
(* over bounded sets of flags, users and contexts (specification           *)
(* SpecFeatureFlags).  ApiError and its response mapping come from         *)
(* crates/core/src/error.rs.                                               *)
(***************************************************************************)
EXTENDS Integers, Sequences, FiniteSets, TLC

(* ------------------------------ bounds -------------------------------- *)
NumTasks == 2          \* concurrent request-handling tasks
MaxCalls == 3          \* call() invocations started in one behaviour
MaxTime == 2           \* horizon of the monotonic clock
MaxThreshold == 2      \* failure_threshold ranges over 1..MaxThreshold
MaxHalfOpen == 1       \* half_open_max_calls ranges over 1..MaxHalfOpen
MaxTimeout == 1        \* recovery_timeout ranges over 1..MaxTimeout
MaxRequests == 150     \* requests entering rate_limit_middleware in one behaviour
MaxClients == 1        \* client IPs are 1..MaxClients
MaxUsers == 1          \* identified users are 1..MaxUsers
MaxWrites == 2         \* set_flag and delete_flag calls in one behaviour
MaxToggles == 2        \* toggle_feature_flag requests in one behaviour

VARIABLES
    tasks,              \* the tasks sharing the breaker (Arc<CircuitBreaker>)
    config,             \* CircuitBreaker.config
    state,              \* CircuitBreaker.state (value inside the RwLock)
    failure_count,      \* CircuitBreaker.failure_count (AtomicU32)
    last_failure_time,  \* CircuitBreaker.last_failure_time: <<>> is None, <<t>> is Some(t)
    half_open_calls,    \* CircuitBreaker.half_open_calls (AtomicU32)
    state_readers,      \* tasks holding a read guard of the state lock
    state_waiters,      \* FIFO wait queue of the state lock
    time_readers,       \* tasks holding a read guard of the last_failure_time lock
    time_waiters,       \* FIFO wait queue of the last_failure_time lock
    now,                \* Instant::now()
    pc,                 \* position of each task inside call()
    current_state,      \* on_failure's local copy of the state
    calls,              \* history: call() invocations started
    hist,               \* history of a single caller (cleared once calls overlap)
    concurrent,         \* history: some call started while another was in flight
    solo,               \* history: the call running with no other call in flight since it began
    ho_admitted,        \* history: calls admitted in the current HalfOpen period
    closed_opens,       \* history: Closed-decided transition_to_open runs since the last close
    due,                \* history: failed operations since the last reset of failure_count
    rl_pc,              \* position of each task inside rate_limit_middleware
    addr,               \* ConnectInfo(addr): the client IP of the task's request
    limiter,            \* the task's local `limiter`: cells left, <<>> when there is none
    admitted,           \* history: requests per IP for which limiter.check() was Ok
    rejected,           \* history: requests per IP for which limiter.check() was Err
    forwarded,          \* history: requests per IP handed to next.run
    rate_limit_exceeded_total,  \* the metrics counter, per "ip" label
    flags,              \* InMemoryFeatureFlagService.flags: name -> <<>> or <<flag>>
    hasher,             \* what hash_user_id gives for each user id
    writes,             \* history: set_flag and delete_flag calls so far
    eval,               \* history: the last is_enabled call since the store was written
    last,               \* history: the last get_flag / set_flag / delete_flag call, if no is_enabled followed
    tg_pc,              \* position of each task inside toggle_feature_flag
    tg_name,            \* toggle_feature_flag: Path(flag_name) of the task's request
    tg_flag,            \* toggle_feature_flag: the task's local `flag`, <<>> when there is none
    toggles,            \* history: toggle_feature_flag requests so far
    toggled             \* history: toggles stored per name

vars == <<tasks, config, state, failure_count, last_failure_time, half_open_calls,
          state_readers, state_waiters, time_readers, time_waiters, now, pc,
          current_state, calls, hist, concurrent, solo,
          ho_admitted, closed_opens, due,
          rl_pc, addr, limiter, admitted, rejected, forwarded,
          rate_limit_exceeded_total, flags, hasher, writes, eval, last,
          tg_pc, tg_name, tg_flag, toggles, toggled>>

breaker == <<state, failure_count, last_failure_time, half_open_calls>>
state_lock == <<state_readers, state_waiters>>
time_lock == <<time_readers, time_waiters>>
rate_limit == <<rl_pc, addr, limiter, admitted, rejected, forwarded,
                rate_limit_exceeded_total>>
feature_flags == <<flags, hasher, writes, eval, last>>
toggle == <<tg_pc, tg_name, tg_flag, toggles, toggled>>
fixed == <<tasks, config, rate_limit, feature_flags, toggle>>
circuit_breaker == <<config, breaker, state_lock, time_lock, now, pc, current_state,
                     calls, hist, concurrent, solo, ho_admitted, closed_opens, due>>

(* -------------------------- program constants -------------------------- *)
Capacity == 100        \* Quota::per_minute(NonZeroU32::new(100).unwrap())

(* --------------------------- CircuitState ------------------------------ *)
CircuitState == {"Closed", "Open", "HalfOpen"}

Clients == 1..MaxClients
Users == 1..MaxUsers

None == <<>>
Some(x) == <<x>>

Configs ==
    [failure_threshold : 1..MaxThreshold,
     recovery_timeout : 1..MaxTimeout,
     half_open_max_calls : 1..MaxHalfOpen]

(* ------------------------------ RwLock --------------------------------- *)
\* tokio's RwLock is fair: a request is served at once when the lock is free
\* for it and nobody waits, and otherwise in arrival order.
AtFront(waiters, t) == IF waiters = <<>> THEN TRUE ELSE Head(waiters) = t

Waiting(waiters, t) == \E i \in 1..Len(waiters) : waiters[i] = t

Granted(waiters, t) == IF waiters # <<>> /\ Head(waiters) = t THEN Tail(waiters) ELSE waiters

CanRead(waiters, t) == AtFront(waiters, t)

CanWrite(readers, waiters, t) == readers = {} /\ AtFront(waiters, t)

(* ------------------------- decision functions -------------------------- *)
\* (variant: the comparison is off by one tick)
RecoveryElapsedEarly(last_failure, t, cfg) == t - last_failure >= cfg.recovery_timeout - 1

\* is_open, Open arm: last_failure.elapsed() >= self.config.recovery_timeout
RecoveryElapsed(last_failure, t, cfg) == t - last_failure >= cfg.recovery_timeout

\* is_open, HalfOpen arm: half_open_calls.load() >= self.config.half_open_max_calls
HalfOpenFull(n, cfg) == n >= cfg.half_open_max_calls

\* (variant: the failure is compared but not added to the counter)
FetchAddNone(n) == n

\* on_failure: failure_count.fetch_add(1) + 1
FetchAddOne(n) == n + 1

\* (variant: strict comparison)
ThresholdExceeded(failures, cfg) == failures > cfg.failure_threshold

\* on_failure, Closed arm: failures >= self.config.failure_threshold
ThresholdReached(failures, cfg) == failures >= cfg.failure_threshold

\* call() invocations started in one behaviour: MaxCalls by NumTasks tasks,
\* one more for each further task
CallBudget == MaxCalls + Cardinality(tasks) - NumTasks

Idle(t) == pc[t] = "idle"
AllIdle == \A t \in tasks : Idle(t)

\* tasks whose operation failed and whose fetch_add has not run yet
PendingFailures == {t \in tasks : pc[t] \in {"on_failure", "on_failure_count"}}

(* ------------------------------ history -------------------------------- *)
\* ok, fail, reject: operations that returned Ok / Err, calls rejected;
\* consec: failed operations since the last successful one;
\* opens: executions of transition_to_open's state write
NoHistory == [ok |-> 0, fail |-> 0, reject |-> 0, consec |-> 0, opens |-> 0]

\* hist is kept for single-caller behaviours only
Recorded(h) == IF concurrent THEN hist ELSE h

(* ---------------------------- feature flags ---------------------------- *)
\* serde_json values: strings and arrays
Str(x) == [type |-> "string", s |-> x]
Array(items) == [type |-> "array", items |-> items]

\* the names of the store: those of initialize_default_flags
StoreNames == {"user_registration", "beta_features", "advanced_analytics"}

\* the name that is given every definition of Flags
FlagNames == {"beta_features"}

\* FeatureFlag.rollout_percentage
Rollouts == {0, 10, 50, 100}

\* FeatureFlag.conditions: Option<serde_json::Value>
CondTier == "user_tier" :> Array({Str("premium"), Str("enterprise")})
CondRegion == "region" :> Array({Str("eu")})
CondTierString == "user_tier" :> Str("premium")
Conditions == {None, Some(CondTier), Some(CondRegion), Some(CondTierString)}

\* struct FeatureFlag (the name is the key of the store)
Flags == [enabled : BOOLEAN, rollout_percentage : Rollouts, conditions : Conditions]

\* the definitions of initialize_default_flags
UserRegistration == [enabled |-> TRUE, rollout_percentage |-> 100, conditions |-> None]
BetaFeatures == [enabled |-> FALSE, rollout_percentage |-> 10, conditions |-> Some(CondTier)]
AdvancedAnalytics == [enabled |-> TRUE, rollout_percentage |-> 50, conditions |-> None]

\* the arguments of set_flag: every definition under "beta_features", and
\* its default definition under "advanced_analytics"
SetInputs ==
    {<<n, f>> : n \in FlagNames, f \in Flags} \cup
       {<<"advanced_analytics", AdvancedAnalytics>>}

\* initialize_default_flags: default_flags, by name
DefaultFlags ==
    [n \in StoreNames |->
        CASE n = "user_registration" -> UserRegistration
          [] n = "beta_features" -> BetaFeatures
          [] n = "advanced_analytics" -> AdvancedAnalytics]

\* arguments of set_flag next to toggles: rollout_percentage is an f32 that
\* nothing restricts, so values outside 0..100 are among them
StoreFlags == [enabled : BOOLEAN, rollout_percentage : {-5, 50, 150}, conditions : {None}]

\* the names asked of is_enabled, get_flag and delete_flag
AskedNames == {"beta_features", "advanced_analytics"}

\* the context argument of is_enabled: Option<&Value>
Contexts ==
    {None,
     Some("user_tier" :> Str("premium")),
     Some("user_tier" :> Str("free")),
     Some(("user_tier" :> Str("premium")) @@ ("region" :> Str("us")))}

\* values of `hasher.finish() as u32`
HashValues == {100, 2147483610}

\* values of rand::random::<f32>() * 100.0
RandomDraws == {5, 75}

(* ------------------------------- Init ---------------------------------- *)
\* every component as constructed: CircuitBreaker::new, no request inside
\* rate_limit_middleware, InMemoryFeatureFlagService::new (an empty store)
ConstructedWith(k) ==
    /\ tasks = 1..k
    /\ state = "Closed"
    /\ failure_count = 0
    /\ last_failure_time = None
    /\ half_open_calls = 0
    /\ state_readers = {}
    /\ state_waiters = <<>>
    /\ time_readers = {}
    /\ time_waiters = <<>>
    /\ now = 0
    /\ pc = [t \in tasks |-> "idle"]
    /\ current_state = [t \in tasks |-> "Closed"]
    /\ calls = 0
    /\ hist = NoHistory
    /\ concurrent = FALSE
    /\ solo = [task |-> 0, start |-> 0]
    /\ ho_admitted = 0
    /\ closed_opens = 0
    /\ due = 0
    /\ rl_pc = [t \in tasks |-> "idle"]
    /\ addr = [t \in tasks |-> 0]
    /\ limiter = [t \in tasks |-> None]
    /\ admitted = [ip \in Clients |-> 0]
    /\ rejected = [ip \in Clients |-> 0]
    /\ forwarded = [ip \in Clients |-> 0]
    /\ rate_limit_exceeded_total = [ip \in Clients |-> 0]
    /\ flags = [n \in StoreNames |-> None]
    /\ writes = 0
    /\ eval = None
    /\ last = None
    /\ tg_pc = [t \in tasks |-> "idle"]
    /\ tg_name = [t \in tasks |-> ""]
    /\ tg_flag = [t \in tasks |-> None]
    /\ toggles = 0
    /\ toggled = [n \in StoreNames |-> 0]

\* ... served by NumTasks request-handling tasks
Constructed == ConstructedWith(NumTasks)

\* the breaker under every configuration
Init ==
    /\ Constructed
    /\ config \in Configs
    /\ hasher = [u \in Users |-> CHOOSE h \in HashValues : TRUE]

(* --------------------------- call: returns ----------------------------- *)
\* the call of task t returns (any outcome): its history bookkeeping
Return(t) ==
    /\ current_state' = [current_state EXCEPT ![t] = "Closed"]
    /\ solo' = IF solo.task = t THEN [task |-> 0, start |-> 0] ELSE solo

\* call returns Err("Circuit breaker is open") without invoking the operation
Reject(t) ==
    /\ pc' = [pc EXCEPT ![t] = "idle"]
    /\ hist' = Recorded([hist EXCEPT !.reject = @ + 1])
    /\ Return(t)

(* -------------------------------- call --------------------------------- *)
call_begin(t) ==
    /\ Idle(t)
    /\ calls < CallBudget
    /\ calls' = calls + 1
    /\ pc' = [pc EXCEPT ![t] = "is_open"]
    /\ concurrent' = (concurrent \/ ~AllIdle)
    /\ solo' = IF AllIdle THEN [task |-> t, start |-> now] ELSE [task |-> 0, start |-> 0]
    /\ hist' = IF AllIdle THEN hist ELSE NoHistory
    /\ UNCHANGED <<fixed, breaker, state_lock, time_lock, now, current_state,
                   ho_admitted, closed_opens, due>>

(* ------------------------------- is_open ------------------------------- *)
\* a task that cannot have the state lock at once joins its wait queue
wait_state(t) ==
    /\ ~Waiting(state_waiters, t)
    /\ \/ /\ pc[t] \in {"is_open", "on_success", "on_failure"}
          /\ ~CanRead(state_waiters, t)
       \/ /\ pc[t] \in {"half_open_state", "closed_state", "open_state"}
          /\ ~CanWrite(state_readers, state_waiters, t)
    /\ state_waiters' = Append(state_waiters, t)
    /\ UNCHANGED <<fixed, breaker, state_readers, time_lock, now, pc, current_state,
                   calls, hist, concurrent, solo, ho_admitted, closed_opens, due>>

\* a task that cannot have the last_failure_time lock at once joins its wait queue
wait_time(t) ==
    /\ ~Waiting(time_waiters, t)
    /\ \/ /\ pc[t] = "is_open_time"
          /\ ~CanRead(time_waiters, t)
       \/ /\ pc[t] \in {"closed_time", "open_time", "on_failure_time"}
          /\ ~CanWrite(time_readers, time_waiters, t)
    /\ time_waiters' = Append(time_waiters, t)
    /\ UNCHANGED <<fixed, breaker, state_lock, time_readers, now, pc, current_state,
                   calls, hist, concurrent, solo, ho_admitted, closed_opens, due>>

\* let state = self.state.read().await; match *state { ... }
\* Closed and HalfOpen arms return here (the guard is dropped on return);
\* the Open arm keeps the read guard and goes on to last_failure_time.
is_open_state(t) ==
    /\ pc[t] = "is_open"
    /\ CanRead(state_waiters, t)
    /\ state_waiters' = Granted(state_waiters, t)
    /\ CASE state = "Closed" ->
                /\ pc' = [pc EXCEPT ![t] = "operation"]
                /\ UNCHANGED <<state_readers, hist, current_state, solo,
                               ho_admitted>>
         [] state = "HalfOpen" /\ HalfOpenFull(half_open_calls, config) ->
                /\ Reject(t)
                /\ UNCHANGED <<state_readers, ho_admitted>>
         [] state = "HalfOpen" /\ ~HalfOpenFull(half_open_calls, config) ->
                /\ pc' = [pc EXCEPT ![t] = "operation"]
                /\ ho_admitted' = ho_admitted + 1
                /\ UNCHANGED <<state_readers, hist, current_state, solo>>
         [] state = "Open" ->
                /\ pc' = [pc EXCEPT ![t] = "is_open_time"]
                /\ state_readers' = state_readers \cup {t}
                /\ UNCHANGED <<hist, current_state, solo, ho_admitted>>
    /\ UNCHANGED <<fixed, breaker, time_lock, now, calls, concurrent, closed_opens,
                   due>>

\* if let Some(last_failure) = *self.last_failure_time.read().await {
\*     if last_failure.elapsed() >= recovery_timeout { drop(state); ... } else { true }
\* } else { true }
\* The read guard of last_failure_time is a temporary of the if-let: it is
\* still held while transition_to_half_open runs.
is_open_time(t) ==
    /\ pc[t] = "is_open_time"
    /\ CanRead(time_waiters, t)
    /\ time_waiters' = Granted(time_waiters, t)
    /\ state_readers' = state_readers \ {t}
    /\ IF /\ last_failure_time # None
          /\ RecoveryElapsed(last_failure_time[1], now, config)
       THEN /\ pc' = [pc EXCEPT ![t] = "half_open_state"]
            /\ time_readers' = time_readers \cup {t}
            /\ UNCHANGED <<hist, current_state, solo>>
       ELSE /\ Reject(t)
            /\ UNCHANGED time_readers
    /\ UNCHANGED <<fixed, breaker, state_waiters, now, calls, concurrent,
                   ho_admitted, closed_opens, due>>

(* ----------------------- transition_to_half_open ----------------------- *)
\* *self.state.write().await = CircuitState::HalfOpen;
\* (is_open returns false after this whatever happens next: the call is admitted)
transition_to_half_open_state(t) ==
    /\ pc[t] = "half_open_state"
    /\ CanWrite(state_readers, state_waiters, t)
    /\ state_waiters' = Granted(state_waiters, t)
    /\ state' = "HalfOpen"
    /\ ho_admitted' = IF state = "HalfOpen" THEN ho_admitted + 1 ELSE 1
    /\ pc' = [pc EXCEPT ![t] = "half_open_calls"]
    /\ UNCHANGED <<fixed, failure_count, last_failure_time, half_open_calls,
                   state_readers, time_lock, now, current_state, calls, hist,
                   concurrent, solo, closed_opens, due>>

\* self.half_open_calls.store(0); then is_open returns false
transition_to_half_open_calls(t) ==
    /\ pc[t] = "half_open_calls"
    /\ half_open_calls' = 0
    /\ time_readers' = time_readers \ {t}
    /\ pc' = [pc EXCEPT ![t] = "operation"]
    /\ UNCHANGED <<fixed, state, failure_count, last_failure_time, state_lock,
                   time_waiters, now, current_state, calls, hist, concurrent, solo,
                   ho_admitted, closed_opens, due>>

(* ------------------------------ operation ------------------------------ *)
\* match operation() { Ok(result) => on_success, Err(e) => on_failure }
operation(t) ==
    /\ pc[t] = "operation"
    /\ \E ok \in BOOLEAN :
          IF ok
          THEN /\ pc' = [pc EXCEPT ![t] = "on_success"]
               /\ hist' = Recorded([hist EXCEPT !.ok = @ + 1, !.consec = 0])
               /\ due' = due
          ELSE /\ pc' = [pc EXCEPT ![t] = "on_failure"]
               /\ hist' = Recorded([hist EXCEPT !.fail = @ + 1, !.consec = @ + 1])
               /\ due' = due + 1
    /\ UNCHANGED <<fixed, breaker, state_lock, time_lock, now, current_state, calls,
                   concurrent, solo, ho_admitted, closed_opens>>

(* ------------------------------ on_success ----------------------------- *)
\* let current_state = *self.state.read().await; match current_state { ... }
on_success_state(t) ==
    /\ pc[t] = "on_success"
    /\ CanRead(state_waiters, t)
    /\ state_waiters' = Granted(state_waiters, t)
    /\ CASE state = "HalfOpen" ->
                /\ pc' = [pc EXCEPT ![t] = "closed_state"]
                /\ UNCHANGED <<current_state, solo>>
         [] state = "Closed" ->
                /\ pc' = [pc EXCEPT ![t] = "on_success_count"]
                /\ UNCHANGED <<current_state, solo>>
         [] state = "Open" ->
                /\ pc' = [pc EXCEPT ![t] = "idle"]
                /\ Return(t)
    /\ UNCHANGED <<fixed, breaker, state_readers, time_lock, now, calls, hist,
                   concurrent, ho_admitted, closed_opens, due>>

\* (variant: the Closed arm does not reset the counter)
on_success_keep_count(t) ==
    /\ pc[t] = "on_success_count"
    /\ pc' = [pc EXCEPT ![t] = "idle"]
    /\ Return(t)
    /\ UNCHANGED <<fixed, breaker, state_lock, time_lock, now, calls, hist,
                   concurrent, ho_admitted, closed_opens, due>>

\* Closed arm: self.failure_count.store(0)
on_success_count(t) ==
    /\ pc[t] = "on_success_count"
    /\ failure_count' = 0
    /\ due' = Cardinality(PendingFailures)
    /\ pc' = [pc EXCEPT ![t] = "idle"]
    /\ Return(t)
    /\ UNCHANGED <<fixed, state, last_failure_time, half_open_calls, state_lock,
                   time_lock, now, calls, hist, concurrent, ho_admitted,
                   closed_opens>>

(* -------------------------- transition_to_closed ----------------------- *)
\* *self.state.write().await = CircuitState::Closed;
transition_to_closed_state(t) ==
    /\ pc[t] = "closed_state"
    /\ CanWrite(state_readers, state_waiters, t)
    /\ state_waiters' = Granted(state_waiters, t)
    /\ state' = "Closed"
    /\ ho_admitted' = 0
    /\ closed_opens' = IF state = "Closed" THEN closed_opens ELSE 0
    /\ pc' = [pc EXCEPT ![t] = "closed_count"]
    /\ UNCHANGED <<fixed, failure_count, last_failure_time, half_open_calls,
                   state_readers, time_lock, now, current_state, calls, hist,
                   concurrent, solo, due>>

\* (variant: closing does not reset the counter)
transition_to_closed_keep_count(t) ==
    /\ pc[t] = "closed_count"
    /\ pc' = [pc EXCEPT ![t] = "closed_time"]
    /\ UNCHANGED <<fixed, breaker, state_lock, time_lock, now, current_state, calls,
                   hist, concurrent, solo, ho_admitted, closed_opens, due>>

\* self.failure_count.store(0)
transition_to_closed_count(t) ==
    /\ pc[t] = "closed_count"
    /\ failure_count' = 0
    /\ due' = Cardinality(PendingFailures)
    /\ pc' = [pc EXCEPT ![t] = "closed_time"]
    /\ UNCHANGED <<fixed, state, last_failure_time, half_open_calls, state_lock,
                   time_lock, now, current_state, calls, hist, concurrent, solo,
                   ho_admitted, closed_opens>>

\* *self.last_failure_time.write().await = None;
transition_to_closed_time(t) ==
    /\ pc[t] = "closed_time"
    /\ CanWrite(time_readers, time_waiters, t)
    /\ time_waiters' = Granted(time_waiters, t)
    /\ last_failure_time' = None
    /\ pc' = [pc EXCEPT ![t] = "closed_calls"]
    /\ UNCHANGED <<fixed, state, failure_count, half_open_calls, state_lock,
                   time_readers, now, current_state, calls, hist, concurrent, solo,
                   ho_admitted, closed_opens, due>>

\* self.half_open_calls.store(0); on_success returns
transition_to_closed_calls(t) ==
    /\ pc[t] = "closed_calls"
    /\ half_open_calls' = 0
    /\ pc' = [pc EXCEPT ![t] = "idle"]
    /\ Return(t)
    /\ UNCHANGED <<fixed, state, failure_count, last_failure_time, state_lock,
                   time_lock, now, calls, hist, concurrent, ho_admitted,
                   closed_opens, due>>

(* ------------------------------ on_failure ----------------------------- *)
\* let current_state = *self.state.read().await;
on_failure_state(t) ==
    /\ pc[t] = "on_failure"
    /\ CanRead(state_waiters, t)
    /\ state_waiters' = Granted(state_waiters, t)
    /\ current_state' = [current_state EXCEPT ![t] = state]
    /\ pc' = [pc EXCEPT ![t] = "on_failure_count"]
    /\ UNCHANGED <<fixed, breaker, state_readers, time_lock, now, calls, hist,
                   concurrent, solo, ho_admitted, closed_opens, due>>

\* let failures = self.failure_count.fetch_add(1) + 1; match current_state { ... }
on_failure_count(t) ==
    /\ pc[t] = "on_failure_count"
    /\ failure_count' = FetchAddOne(failure_count)
    /\ CASE current_state[t] = "Closed" /\ ThresholdReached(failure_count', config) ->
                /\ pc' = [pc EXCEPT ![t] = "open_state"]
                /\ UNCHANGED <<current_state, solo>>
         [] current_state[t] = "Closed" /\ ~ThresholdReached(failure_count', config) ->
                /\ pc' = [pc EXCEPT ![t] = "idle"]
                /\ Return(t)
         [] current_state[t] = "HalfOpen" ->
                /\ pc' = [pc EXCEPT ![t] = "open_state"]
                /\ UNCHANGED <<current_state, solo>>
         [] current_state[t] = "Open" ->
                /\ pc' = [pc EXCEPT ![t] = "on_failure_time"]
                /\ UNCHANGED <<current_state, solo>>
    /\ UNCHANGED <<fixed, state, last_failure_time, half_open_calls, state_lock,
                   time_lock, now, calls, hist, concurrent, ho_admitted,
                   closed_opens, due>>

\* Open arm: *self.last_failure_time.write().await = Some(Instant::now());
on_failure_time(t) ==
    /\ pc[t] = "on_failure_time"
    /\ CanWrite(time_readers, time_waiters, t)
    /\ time_waiters' = Granted(time_waiters, t)
    /\ last_failure_time' = Some(now)
    /\ pc' = [pc EXCEPT ![t] = "idle"]
    /\ Return(t)
    /\ UNCHANGED <<fixed, state, failure_count, half_open_calls, state_lock,
                   time_readers, now, calls, hist, concurrent, ho_admitted,
                   closed_opens, due>>

(* --------------------------- transition_to_open ------------------------ *)
\* *self.state.write().await = CircuitState::Open;
transition_to_open_state(t) ==
    /\ pc[t] = "open_state"
    /\ CanWrite(state_readers, state_waiters, t)
    /\ state_waiters' = Granted(state_waiters, t)
    /\ state' = "Open"
    /\ hist' = Recorded([hist EXCEPT !.opens = @ + 1])
    /\ ho_admitted' = 0
    /\ closed_opens' = IF current_state[t] = "Closed" THEN closed_opens + 1
                       ELSE closed_opens
    /\ pc' = [pc EXCEPT ![t] = "open_time"]
    /\ UNCHANGED <<fixed, failure_count, last_failure_time, half_open_calls,
                   state_readers, time_lock, now, current_state, calls, concurrent,
                   solo, due>>

\* (variant: re-opening keeps the previous failure timestamp)
transition_to_open_keep_time(t) ==
    /\ pc[t] = "open_time"
    /\ CanWrite(time_readers, time_waiters, t)
    /\ time_waiters' = Granted(time_waiters, t)
    /\ last_failure_time' = IF last_failure_time = None THEN Some(now)
                            ELSE last_failure_time
    /\ pc' = [pc EXCEPT ![t] = "open_calls"]
    /\ UNCHANGED <<fixed, state, failure_count, half_open_calls, state_lock,
                   time_readers, now, current_state, calls, hist, concurrent, solo,
                   ho_admitted, closed_opens, due>>

\* *self.last_failure_time.write().await = Some(Instant::now());
transition_to_open_time(t) ==
    /\ pc[t] = "open_time"
    /\ CanWrite(time_readers, time_waiters, t)
    /\ time_waiters' = Granted(time_waiters, t)
    /\ last_failure_time' = Some(now)
    /\ pc' = [pc EXCEPT ![t] = "open_calls"]
    /\ UNCHANGED <<fixed, state, failure_count, half_open_calls, state_lock,
                   time_readers, now, current_state, calls, hist, concurrent, solo,
                   ho_admitted, closed_opens, due>>

\* self.half_open_calls.store(0); on_failure returns
transition_to_open_calls(t) ==
    /\ pc[t] = "open_calls"
    /\ half_open_calls' = 0
    /\ pc' = [pc EXCEPT ![t] = "idle"]
    /\ Return(t)
    /\ UNCHANGED <<fixed, state, failure_count, last_failure_time, state_lock,
                   time_lock, now, calls, hist, concurrent, ho_admitted,
                   closed_opens, due>>

(* -------------------------------- clock -------------------------------- *)
\* time passes between any two steps
tick ==
    /\ now < MaxTime
    /\ now' = now + 1
    /\ UNCHANGED <<fixed, breaker, state_lock, time_lock, pc, current_state, calls,
                   hist, concurrent, solo, ho_admitted, closed_opens, due>>

(* ----------------------------- specification --------------------------- *)
Next ==
    \/ \E t \in tasks : call_begin(t)
    \/ \E t \in tasks : wait_state(t)
    \/ \E t \in tasks : wait_time(t)
    \/ \E t \in tasks : is_open_state(t)
    \/ \E t \in tasks : is_open_time(t)
    \/ \E t \in tasks : transition_to_half_open_state(t)
    \/ \E t \in tasks : transition_to_half_open_calls(t)
    \/ \E t \in tasks : operation(t)
    \/ \E t \in tasks : on_success_state(t)
    \/ \E t \in tasks : on_success_count(t)
    \/ \E t \in tasks : transition_to_closed_state(t)
    \/ \E t \in tasks : transition_to_closed_count(t)
    \/ \E t \in tasks : transition_to_closed_time(t)
    \/ \E t \in tasks : transition_to_closed_calls(t)
    \/ \E t \in tasks : on_failure_state(t)
    \/ \E t \in tasks : on_failure_count(t)
    \/ \E t \in tasks : on_failure_time(t)
    \/ \E t \in tasks : transition_to_open_state(t)
    \/ \E t \in tasks : transition_to_open_time(t)
    \/ \E t \in tasks : transition_to_open_calls(t)
    \/ tick

Spec == Init /\ [][Next]_vars

TypeOK ==
    /\ state \in CircuitState
    /\ failure_count \in 0..CallBudget
    /\ half_open_calls \in 0..CallBudget
    /\ last_failure_time \in {None} \cup {Some(x) : x \in 0..MaxTime}
    /\ state_readers \subseteq tasks
    /\ time_readers \subseteq tasks
    /\ now \in 0..MaxTime
    /\ calls \in 0..CallBudget

(* ======================= properties of the breaker ===================== *)
SingleCaller == ~concurrent

\* the state changes the breaker's state machine allows
AllowedTransitions ==
    {<<"Closed", "Open">>, <<"Open", "HalfOpen">>,
     <<"HalfOpen", "Closed">>, <<"HalfOpen", "Open">>}

\* task t is past admission of its current call and has not yet run its operation
Admitted(t) == pc[t] \in {"half_open_state", "half_open_calls", "operation"}

\* C1: single caller, from Closed with failure_count 0: once exactly
\* failure_threshold calls have failed and none has succeeded, the breaker is
\* Open, transition_to_open has run exactly once, and the next call is admitted
\* only if recovery_timeout has elapsed since the recorded failure (before
\* that it is rejected and its operation is not invoked).
C1_OpenAfterThreshold ==
    (SingleCaller /\ hist.ok = 0 /\ hist.fail = config.failure_threshold) =>
        /\ AllIdle =>
              /\ state = "Open"
              /\ hist.opens = 1
              /\ last_failure_time # None
        /\ \A t \in tasks : Admitted(t) =>
              /\ last_failure_time # None
              /\ now - last_failure_time[1] >= config.recovery_timeout

C1_Witness ==
    /\ SingleCaller
    /\ AllIdle
    /\ config.failure_threshold = MaxThreshold
    /\ hist.ok = 0
    /\ hist.fail = config.failure_threshold
    /\ hist.reject = 1
    /\ state = "Open"

\* C2: a call that finds the breaker Open with less than recovery_timeout
\* elapsed since the recorded failure returns at once (rejected; it never
\* reaches its operation) and leaves state, failure_count and
\* last_failure_time as they were.
C2_RejectedWhileOpen ==
    [][\A t \in tasks :
          /\ (pc[t] = "is_open" /\ pc'[t] # "is_open" /\ state = "Open") =>
                /\ pc'[t] = "is_open_time"
                /\ UNCHANGED <<state, failure_count, last_failure_time>>
          /\ (/\ pc[t] = "is_open_time" /\ pc'[t] # "is_open_time"
              /\ last_failure_time # None
              /\ now - last_failure_time[1] < config.recovery_timeout) =>
                /\ state = "Open"
                /\ pc'[t] = "idle"
                /\ UNCHANGED <<state, failure_count, last_failure_time>>
      ]_vars

C2_Witness ==
    /\ SingleCaller
    /\ AllIdle
    /\ hist.reject >= 1
    /\ state = "Open"
    /\ last_failure_time # None
    /\ now - last_failure_time[1] < config.recovery_timeout

\* C3: a call that passes the Open arm after recovery_timeout puts the
\* breaker in HalfOpen and is then admitted under the HalfOpen rule: only
\* when fewer than half_open_max_calls probes were admitted before it in
\* this HalfOpen period.
C3_TriggerAdmittedUnderHalfOpenRule ==
    [][\A t \in tasks :
          (pc[t] = "half_open_state" /\ pc'[t] = "half_open_calls") =>
              /\ state' = "HalfOpen"
              /\ ho_admitted' <= config.half_open_max_calls
      ]_vars

\* C4: within one HalfOpen period at most half_open_max_calls calls are
\* admitted, under any interleaving.
C4_ProbesCapped ==
    state = "HalfOpen" => ho_admitted <= config.half_open_max_calls

C7_OnlyConsecutiveFailuresCount ==
    (SingleCaller /\ AllIdle) =>
        /\ state = "Closed" <=> hist.consec < config.failure_threshold
        /\ state = "Closed" => failure_count = hist.consec

C7_Witness ==
    /\ SingleCaller
    /\ AllIdle
    /\ state = "Closed"
    /\ hist.opens = 0
    /\ hist.ok >= 1
    /\ hist.fail >= config.failure_threshold
    /\ failure_count = 1

\* C8: every change of the state variable is Closed->Open, Open->HalfOpen,
\* HalfOpen->Closed or HalfOpen->Open, under any interleaving.
C8_OnlyAllowedTransitions ==
    [][state' # state => <<state, state'>> \in AllowedTransitions]_vars

\* C9: no failure is lost: failure_count is the number of operations that
\* failed since failure_count was last reset, less those whose fetch_add has
\* not run yet.
C9_NoLostFailure ==
    failure_count + Cardinality(PendingFailures) = due

C9_Witness ==
    /\ Cardinality(tasks) >= 2
    /\ \A t \in tasks : pc[t] \in {"open_state", "open_time", "open_calls"}
    /\ failure_count = Cardinality(tasks)

\* C10: in one Closed period the count-then-open decision is applied once:
\* transition_to_open decided from Closed runs at most once before the next
\* close.
C10_OpenedOncePerClosedPeriod ==
    closed_opens <= 1

\* the breaker at rest in Open with no recorded failure time: is_open takes
\* the `else { true }` arm for every caller, and no admitted call is left
\* to write the state or the time again
Lockout ==
    /\ AllIdle
    /\ state = "Open"
    /\ last_failure_time = None

ApiErrorKinds ==
    {"Database", "Unauthorized", "Validation", "NotFound", "RateLimitExceeded",
     "Internal", "BadRequest", "Conflict", "Config"}

ApiError(kind, msg) == [kind |-> kind, msg |-> msg]

\* Internal(#[from] anyhow::Error): what `.into()` makes of an anyhow error
FromAnyhow(msg) == ApiError("Internal", msg)

\* impl IntoResponse for ApiError: (status, error_code, error_message)
into_response(e) ==
    CASE e.kind = "Database" ->
            [status |-> 500, code |-> "DATABASE_ERROR", message |-> "Database error occurred"]
      [] e.kind = "Unauthorized" ->
            [status |-> 401, code |-> "UNAUTHORIZED", message |-> e.msg]
      [] e.kind = "Validation" ->
            [status |-> 400, code |-> "VALIDATION_ERROR", message |-> e.msg]
      [] e.kind = "NotFound" ->
            [status |-> 404, code |-> "NOT_FOUND", message |-> e.msg]
      [] e.kind = "RateLimitExceeded" ->
            [status |-> 429, code |-> "RATE_LIMIT_EXCEEDED", message |-> e.msg]
      [] e.kind = "Internal" ->
            [status |-> 500, code |-> "INTERNAL_ERROR", message |-> "Internal server error"]
      [] e.kind = "BadRequest" ->
            [status |-> 400, code |-> "BAD_REQUEST", message |-> e.msg]
      [] e.kind = "Conflict" ->
            [status |-> 409, code |-> "CONFLICT", message |-> e.msg]
      [] e.kind = "Config" ->
            [status |-> 500, code |-> "CONFIG_ERROR", message |-> "Configuration error"]

\* return Err(anyhow::anyhow!("Circuit breaker is open").into());
CircuitOpenResult == FromAnyhow("Circuit breaker is open")

\* Err(anyhow::anyhow!("Operation failed: {}", e).into())
OperationFailedResult == FromAnyhow("Operation failed: {e}")

\* the value call() returns in a step that takes task t back to idle:
\* the rejection error out of is_open, the failure error after on_failure,
\* Ok(result) after on_success
call_result(t) ==
    IF pc[t] \in {"is_open", "is_open_time"}
    THEN [ok |-> FALSE, err |-> CircuitOpenResult]
    ELSE IF pc[t] \in {"on_failure", "on_failure_count", "on_failure_time",
                       "open_state", "open_time", "open_calls"}
         THEN [ok |-> FALSE, err |-> OperationFailedResult]
         ELSE [ok |-> TRUE, err |-> <<>>]

Returns(t) == pc[t] # "idle" /\ pc'[t] = "idle"

Rejected(t) == Returns(t) /\ pc[t] \in {"is_open", "is_open_time"}

OperationFailed(t) ==
    /\ Returns(t)
    /\ pc[t] \in {"on_failure", "on_failure_count", "on_failure_time",
                  "open_state", "open_time", "open_calls"}

\* C12: call() fails with the open-circuit error exactly when admission was
\* rejected and with the operation-failed error exactly when the admitted
\* operation failed; the two are different error kinds, and the response
\* made from a rejection differs from the response made from a failure.
C12_DistinctErrorKinds ==
    [][\A t \in tasks :
          /\ Rejected(t) =>
                /\ ~call_result(t).ok
                /\ call_result(t).err = CircuitOpenResult
                /\ call_result(t).err.kind # OperationFailedResult.kind
                /\ into_response(call_result(t).err) #
                      into_response(OperationFailedResult)
          /\ OperationFailed(t) =>
                /\ ~call_result(t).ok
                /\ call_result(t).err = OperationFailedResult
          /\ (Returns(t) /\ ~Rejected(t) /\ ~OperationFailed(t)) =>
                call_result(t).ok
      ]_vars

(* ------------- rate_limit_middleware (api/handlers/health.rs) ------------ *)
Sum(f) ==
    LET RECURSIVE S(_)
        S(D) == IF D = {} THEN 0
                ELSE LET x == CHOOSE y \in D : TRUE IN f[x] + S(D \ {x})
    IN S(DOMAIN f)

\* requests that have entered the middleware so far
Entered ==
    Sum(admitted) + Sum(rejected) + Cardinality({t \in tasks : rl_pc[t] = "check"})

\* a limiter that remembers the cells taken by the requests admitted so far
direct_keeping(quota) == Some(quota - Sum(admitted))

\* RateLimiter::direct(quota) with quota = Quota::per_minute(100): a new
\* limiter whose whole burst of 100 cells is available
direct(quota) == Some(quota)

\* limiter.check(): Ok when a cell is left (and it is taken), Err otherwise
check_ok(l) == l[1] > 0
check_left(l) == IF check_ok(l) THEN Some(l[1] - 1) ELSE l

\* the arms with the counter also incremented on the Ok arm
rate_limit_arm_counting(ok) ==
    IF ok
    THEN [next_run |-> TRUE, counted |-> 1, err |-> None]
    ELSE [next_run |-> FALSE, counted |-> 1,
          err |-> Some(ApiError("RateLimitExceeded",
                                "Too many requests. Please try again later."))]

\* the two arms of `match limiter.check()`: whether the request goes to
\* next.run, what is added to rate_limit_exceeded_total, and the error returned
rate_limit_arm(ok) ==
    IF ok
    THEN [next_run |-> TRUE, counted |-> 0, err |-> None]
    ELSE [next_run |-> FALSE, counted |-> 1,
          err |-> Some(ApiError("RateLimitExceeded",
                                "Too many requests. Please try again later."))]

\* a request of client ip enters the middleware on task t:
\* let quota = Quota::per_minute(100); let limiter = RateLimiter::direct(quota);
rate_limit_begin(t) ==
    /\ rl_pc[t] = "idle"
    /\ Entered < MaxRequests
    /\ \E ip \in Clients : addr' = [addr EXCEPT ![t] = ip]
    /\ limiter' = [limiter EXCEPT ![t] = direct(Capacity)]
    /\ rl_pc' = [rl_pc EXCEPT ![t] = "check"]
    /\ UNCHANGED <<tasks, circuit_breaker, feature_flags, toggle, admitted, rejected,
                   forwarded, rate_limit_exceeded_total>>

\* match limiter.check() { Ok(_) => Ok(next.run(request).await),
\*                         Err(_) => { increment_counter(..); Err(RateLimitExceeded) } }
rate_limit_check(t) ==
    /\ rl_pc[t] = "check"
    /\ LET ok == check_ok(limiter[t])
           arm == rate_limit_arm(ok)
           ip == addr[t]
       IN /\ limiter' = [limiter EXCEPT ![t] = IF arm.next_run THEN check_left(@) ELSE None]
          /\ admitted' = [admitted EXCEPT ![ip] = IF ok THEN @ + 1 ELSE @]
          /\ rejected' = [rejected EXCEPT ![ip] = IF ok THEN @ ELSE @ + 1]
          /\ forwarded' = [forwarded EXCEPT ![ip] = IF arm.next_run THEN @ + 1 ELSE @]
          /\ rate_limit_exceeded_total' =
                [rate_limit_exceeded_total EXCEPT ![ip] = @ + arm.counted]
          /\ rl_pc' = [rl_pc EXCEPT ![t] = IF arm.next_run THEN "next" ELSE "idle"]
          /\ addr' = [addr EXCEPT ![t] = IF arm.next_run THEN @ ELSE 0]
    /\ UNCHANGED <<tasks, circuit_breaker, feature_flags, toggle>>

\* next.run(request) completes and the middleware returns its response;
\* the local limiter is dropped
next_run(t) ==
    /\ rl_pc[t] = "next"
    /\ rl_pc' = [rl_pc EXCEPT ![t] = "idle"]
    /\ limiter' = [limiter EXCEPT ![t] = None]
    /\ addr' = [addr EXCEPT ![t] = 0]
    /\ UNCHANGED <<tasks, circuit_breaker, feature_flags, toggle, admitted, rejected,
                   forwarded, rate_limit_exceeded_total>>

\* the breaker and the flag store take no part here: they stay as constructed
InitRateLimit ==
    /\ Constructed
    /\ config = CHOOSE c \in Configs : TRUE
    /\ hasher = [u \in Users |-> CHOOSE h \in HashValues : TRUE]

NextRateLimit ==
    \/ \E t \in tasks : rate_limit_begin(t)
    \/ \E t \in tasks : rate_limit_check(t)
    \/ \E t \in tasks : next_run(t)

SpecRateLimit == InitRateLimit /\ [][NextRateLimit]_vars

TypeOKRateLimit ==
    /\ rl_pc \in [tasks -> {"idle", "check", "next"}]
    /\ addr \in [tasks -> Clients \cup {0}]
    /\ \A t \in tasks : limiter[t] = None \/ limiter[t][1] \in 0..Capacity
    /\ admitted \in [Clients -> 0..MaxRequests]
    /\ rejected \in [Clients -> 0..MaxRequests]
    /\ forwarded \in [Clients -> 0..MaxRequests]
    /\ rate_limit_exceeded_total \in [Clients -> 0..MaxRequests]

\* C13: within one window a client is admitted at most Capacity times
\* whatever the interleaving of its requests, and is rejected only once the
\* whole capacity has been handed out: of MaxRequests checks exactly
\* Capacity are admitted and the rest rejected, and two concurrent requests
\* are never both admitted on the last unit.
C13_AdmitsExactlyCapacity ==
    \A ip \in Clients :
        /\ admitted[ip] <= Capacity
        /\ rejected[ip] > 0 => admitted[ip] = Capacity
        /\ admitted[ip] + rejected[ip] = MaxRequests =>
              /\ admitted[ip] = Capacity
              /\ rejected[ip] = MaxRequests - Capacity

\* C14: the quota left to a client stays within 0..Capacity: the check of
\* a request finds what the client's earlier admitted requests left
\* (Capacity less one for each of them), an admitted check takes exactly
\* one unit and a rejected check takes none.
C14_QuotaLoweredByOne ==
    [][\A t \in tasks :
          (rl_pc[t] = "check" /\ rl_pc'[t] # "check") =>
             /\ limiter[t][1] \in 0..Capacity
             /\ limiter[t][1] = Capacity - admitted[addr[t]]
             /\ admitted'[addr[t]] = admitted[addr[t]] + 1 =>
                   limiter'[t] = Some(limiter[t][1] - 1)
             /\ rejected'[addr[t]] = rejected[addr[t]] + 1 =>
                   admitted'[addr[t]] = admitted[addr[t]]
      ]_vars

get(obj, key) == IF key \in DOMAIN obj THEN Some(obj[key]) ELSE None

\* Value::as_array
as_array(v) == IF v.type = "array" THEN Some(v.items) ELSE None

\* fn evaluate_conditions(&self, flag, context) -> bool
evaluate_conditions(flag, context) ==
    IF flag.conditions # None /\ context # None
    THEN LET conditions == flag.conditions[1]
             ctx == context[1]
             user_tier_conditions == get(conditions, "user_tier")
         IN IF user_tier_conditions # None
            THEN LET user_tier == get(ctx, "user_tier")
                 IN IF user_tier # None /\ as_array(user_tier_conditions[1]) # None
                    THEN user_tier[1] \in as_array(user_tier_conditions[1])[1]
                    ELSE FALSE
            ELSE TRUE
    ELSE TRUE

\* fn hash_user_id(&self, user_id) -> u32
hash_user_id(uid) == hasher[uid]

\* fn check_rollout with the random draw used for identified users as well
check_rollout_random(flag, user_id, r) ==
    IF flag.rollout_percentage >= 100
    THEN TRUE
    ELSE r < flag.rollout_percentage

\* fn check_rollout with the comparison of the user's percentage reversed
check_rollout_above(flag, user_id, r) ==
    IF flag.rollout_percentage >= 100
    THEN TRUE
    ELSE IF user_id # None
         THEN LET hash == hash_user_id(user_id[1])
                  percentage == hash % 100
              IN percentage > flag.rollout_percentage
         ELSE r < flag.rollout_percentage

\* fn check_rollout with `<=` in the comparison of the user's percentage
check_rollout_inclusive(flag, user_id, r) ==
    IF flag.rollout_percentage >= 100
    THEN TRUE
    ELSE IF user_id # None
         THEN LET hash == hash_user_id(user_id[1])
                  percentage == hash % 100
              IN percentage <= flag.rollout_percentage
         ELSE r < flag.rollout_percentage

\* fn check_rollout(&self, flag, user_id) -> bool; r is the draw of rand::random
check_rollout(flag, user_id, r) ==
    IF flag.rollout_percentage >= 100
    THEN TRUE
    ELSE IF user_id # None
         THEN LET hash == hash_user_id(user_id[1])
                  percentage == hash % 100
              IN percentage < flag.rollout_percentage
         ELSE r < flag.rollout_percentage

\* is_enabled without the test of flag.enabled
is_enabled_value_unswitched(found, user_id, context, r) ==
    IF found # None
    THEN LET flag == found[1]
         IN IF ~evaluate_conditions(flag, context)
            THEN FALSE
            ELSE check_rollout(flag, user_id, r)
    ELSE FALSE

\* the value is_enabled returns for the stored entry `found`
is_enabled_value(found, user_id, context, r) ==
    IF found # None
    THEN LET flag == found[1]
         IN IF ~flag.enabled
            THEN FALSE
            ELSE IF ~evaluate_conditions(flag, context)
                 THEN FALSE
                 ELSE check_rollout(flag, user_id, r)
    ELSE FALSE

\* the call repeats the inputs of the last call (no write in between)
SameCall(flag_name, user_id, context) ==
    IF eval = None
    THEN FALSE
    ELSE /\ eval[1].flag_name = flag_name
         /\ eval[1].user_id = user_id
         /\ eval[1].context = context

\* async fn is_enabled(&self, flag_name, user_id, context) -> bool
\* (the read guard of the store is held for the whole evaluation)
is_enabled(flag_name, user_id, context) ==
    /\ \E r \in RandomDraws :
          eval' = Some([flag_name |-> flag_name, user_id |-> user_id,
                        context |-> context, found |-> flags[flag_name],
                        again |-> SameCall(flag_name, user_id, context),
                        enabled |-> is_enabled_value(flags[flag_name], user_id,
                                                     context, r)])
    /\ last' = None
    /\ UNCHANGED <<tasks, circuit_breaker, rate_limit, toggle, flags, hasher, writes>>

\* a set_flag that keeps the conditions of the definition it replaces
store_insert_merging(name, flag) ==
    /\ flags' = [flags EXCEPT ![name] =
                    IF @ = None THEN Some(flag)
                    ELSE Some([flag EXCEPT !.conditions = flags[name][1].conditions])]
    /\ eval' = None
    /\ last' = Some([op |-> "set_flag", name |-> name, flag |-> Some(flag),
                     before |-> flags[name], ret |-> None])

\* let mut flags = self.flags.write().await; flags.insert(flag.name.clone(), flag);
store_insert(name, flag) ==
    /\ flags' = [flags EXCEPT ![name] = Some(flag)]
    /\ eval' = None
    /\ last' = Some([op |-> "set_flag", name |-> name, flag |-> Some(flag),
                     before |-> flags[name], ret |-> None])

\* async fn set_flag(&self, flag) -> Result<()>
set_flag(name, flag) ==
    /\ writes < MaxWrites
    /\ writes' = writes + 1
    /\ store_insert(name, flag)
    /\ UNCHANGED <<tasks, circuit_breaker, rate_limit, toggle, hasher>>

\* async fn delete_flag(&self, flag_name): Ok(flags.remove(flag_name).is_some())
delete_flag(flag_name) ==
    /\ writes < MaxWrites
    /\ writes' = writes + 1
    /\ flags' = [flags EXCEPT ![flag_name] = None]
    /\ eval' = None
    /\ last' = Some([op |-> "delete_flag", name |-> flag_name, flag |-> None,
                     before |-> flags[flag_name], ret |-> Some(flags[flag_name] # None)])
    /\ UNCHANGED <<tasks, circuit_breaker, rate_limit, toggle, hasher>>

\* async fn get_flag(&self, flag_name): Ok(flags.get(flag_name).cloned())
get_flag(flag_name) ==
    /\ last' = Some([op |-> "get_flag", name |-> flag_name, flag |-> None,
                     before |-> flags[flag_name], ret |-> Some(flags[flag_name])])
    /\ UNCHANGED <<tasks, circuit_breaker, rate_limit, toggle, flags, hasher, writes,
                   eval>>

\* InMemoryFeatureFlagService::new(): an empty store; DefaultHasher::new()
\* is one fixed function of the user id, whatever its values are
InitFeatureFlags ==
    /\ Constructed
    /\ config = CHOOSE c \in Configs : TRUE
    /\ hasher \in [Users -> HashValues]

NextFeatureFlags ==
    \/ \E n \in AskedNames, u \in {None} \cup {Some(x) : x \in Users}, c \in Contexts :
          is_enabled(n, u, c)
    \/ \E i \in SetInputs : set_flag(i[1], i[2])
    \/ \E n \in AskedNames : delete_flag(n)
    \/ \E n \in AskedNames : get_flag(n)

SpecFeatureFlags == InitFeatureFlags /\ [][NextFeatureFlags]_vars

TypeOKFeatureFlags ==
    /\ flags \in [StoreNames -> {None} \cup {Some(f) : f \in Flags}]
    /\ hasher \in [Users -> HashValues]
    /\ writes \in 0..MaxWrites
    /\ eval # None => eval[1].enabled \in BOOLEAN
    /\ last # None => last[1].op \in {"get_flag", "set_flag", "delete_flag"}

\* C16: is_enabled returns false for every user and context when the flag
\* is absent from the store or its enabled field is false, whatever its
\* rollout_percentage and conditions are.
C16_AbsentOrDisabledIsOff ==
    eval # None =>
        ((eval[1].found = None \/ ~eval[1].found[1].enabled) => ~eval[1].enabled)

C16_Witness ==
    /\ eval # None
    /\ eval[1].found # None
    /\ ~eval[1].found[1].enabled
    /\ eval[1].found[1].rollout_percentage = 100
    /\ eval[1].found[1].conditions = None
    /\ ~eval[1].enabled

\* C17: for an enabled flag that has conditions, is_enabled called without
\* a context returns false for every user and every rollout_percentage.
C17_NoContextFailsClosed ==
    (/\ eval # None
     /\ eval[1].found # None
     /\ eval[1].found[1].enabled
     /\ eval[1].found[1].conditions # None
     /\ eval[1].context = None) => ~eval[1].enabled

\* the values a condition allows for its attribute
Allowed(condition) == IF condition.type = "array" THEN condition.items ELSE {}

\* C18: for an enabled flag with conditions and a supplied context,
\* is_enabled returns false whenever some attribute named in the conditions
\* has a value in the context that is not among the values allowed for it.
C18_EveryConditionChecked ==
    (/\ eval # None
     /\ eval[1].found # None
     /\ eval[1].found[1].enabled
     /\ eval[1].found[1].conditions # None
     /\ eval[1].context # None
     /\ \E a \in DOMAIN eval[1].found[1].conditions[1] :
           /\ a \in DOMAIN eval[1].context[1]
           /\ eval[1].context[1][a] \notin Allowed(eval[1].found[1].conditions[1][a]))
    => ~eval[1].enabled

\* C19: with rollout_percentage 0 is_enabled is false for every identified
\* user on every call; with rollout_percentage 100 on an enabled flag
\* without conditions it is true for every caller, identified or anonymous,
\* with or without context.
C19_RolloutBoundaries ==
    (eval # None /\ eval[1].found # None) =>
        /\ (eval[1].found[1].rollout_percentage = 0 /\ eval[1].user_id # None)
              => ~eval[1].enabled
        /\ (/\ eval[1].found[1].rollout_percentage = 100
            /\ eval[1].found[1].enabled
            /\ eval[1].found[1].conditions = None) => eval[1].enabled

\* an enabled flag without conditions at 0 percent, asked for the user whose
\* percentage is 0: the comparison in check_rollout decides
C19_Witness ==
    /\ eval # None
    /\ eval[1].found # None
    /\ eval[1].found[1].enabled
    /\ eval[1].found[1].conditions = None
    /\ eval[1].found[1].rollout_percentage = 0
    /\ eval[1].user_id # None
    /\ hash_user_id(eval[1].user_id[1]) % 100 = 0
    /\ ~eval[1].enabled

\* C20: for an identified user the result of is_enabled is a function of
\* the flag definition, the user id and the context alone: the call reads
\* the store without changing it, no random draw enters the result, and a
\* call repeated with the same inputs while the flag is unchanged returns
\* what the call before it returned.
C20_StableForIdentifiedUser ==
    [][(eval' # eval /\ eval' # None /\ eval'[1].user_id # None) =>
          /\ UNCHANGED <<flags, hasher>>
          /\ \A r \in RandomDraws :
                eval'[1].enabled =
                   is_enabled_value(flags[eval'[1].flag_name], eval'[1].user_id,
                                    eval'[1].context, r)
          /\ eval'[1].again => eval'[1].enabled = eval[1].enabled
      ]_vars

\* a repeated call for an identified user on an enabled flag whose
\* rollout_percentage lies strictly between 0 and 100
C20_Witness ==
    /\ eval # None
    /\ eval[1].again
    /\ eval[1].user_id # None
    /\ eval[1].found # None
    /\ eval[1].found[1].enabled
    /\ eval[1].found[1].conditions = None
    /\ eval[1].found[1].rollout_percentage = 10
    /\ eval[1].enabled

\* C21: an identified user's percentage is hash(user) mod 100, a value in
\* 0..99, and the user passes the rollout exactly when it is below
\* rollout_percentage; so a user for whom the flag is on at one percentage
\* has it on at every higher percentage, the other fields being equal.
C21_RolloutMonotonic ==
    (eval # None /\ eval[1].user_id # None /\ eval[1].found # None) =>
        LET flag == eval[1].found[1]
            bucket == hash_user_id(eval[1].user_id[1]) % 100
        IN /\ bucket \in 0..99
           /\ \A r \in RandomDraws :
                 check_rollout(flag, eval[1].user_id, r) <=>
                    (bucket < flag.rollout_percentage)
           /\ eval[1].enabled =>
                 \A p2 \in Rollouts, r \in RandomDraws :
                    p2 >= flag.rollout_percentage =>
                       is_enabled_value(
                          Some([flag EXCEPT !.rollout_percentage = p2]),
                          eval[1].user_id, eval[1].context, r)

\* the flag is on at 10 percent for an identified user whose percentage is 0
C21_Witness ==
    /\ eval # None
    /\ eval[1].user_id # None
    /\ eval[1].found # None
    /\ eval[1].found[1].rollout_percentage = 10
    /\ eval[1].found[1].conditions # None
    /\ hash_user_id(eval[1].user_id[1]) % 100 = 0
    /\ eval[1].enabled

\* C22: set_flag replaces the whole definition stored under the flag's name
\* (a get_flag of that name then returns exactly the flag that was set,
\* nothing kept from the definition before) and touches no other name;
\* delete_flag returns true exactly when the name was in the store, leaves
\* the name absent, so that get_flag finds nothing and a second delete_flag
\* returns false; get_flag returns the stored entry and changes nothing.
C22_SetReplacesDeleteReports ==
    [][(last' # last /\ last' # None) =>
          LET l == last'[1]
              follows == last # None /\ last[1].name = l.name
          IN /\ (l.op = "set_flag") =>
                   /\ flags' = [flags EXCEPT ![l.name] = l.flag]
                   /\ flags'[l.name] # None
             /\ (l.op = "delete_flag") =>
                   /\ l.ret = Some(flags[l.name] # None)
                   /\ flags' = [flags EXCEPT ![l.name] = None]
             /\ (l.op = "get_flag") =>
                   /\ l.ret = Some(flags[l.name])
                   /\ flags' = flags
             /\ (l.op = "get_flag" /\ follows /\ last[1].op = "set_flag") =>
                   l.ret = Some(last[1].flag)
             /\ (l.op = "get_flag" /\ follows /\ last[1].op = "delete_flag") =>
                   l.ret = Some(None)
             /\ (l.op = "delete_flag" /\ follows /\ last[1].op = "delete_flag") =>
                   l.ret = Some(FALSE)
      ]_vars

\* get_flag has just returned a definition that replaced one with other
\* conditions, while the other name keeps its own definition
C22_Witness ==
    /\ last # None
    /\ last[1].op = "get_flag"
    /\ last[1].name = "beta_features"
    /\ last[1].ret = Some(Some([enabled |-> TRUE, rollout_percentage |-> 50,
                                conditions |-> None]))
    /\ flags["advanced_analytics"] = Some(AdvancedAnalytics)
    /\ writes = MaxWrites

(* ------------- the store under toggle_feature_flag requests -------------- *)
\* pub async fn initialize_default_flags(&self): every default flag is
\* inserted under one write guard; main calls it once, before any request
initialize_default_flags ==
    /\ writes = 0
    /\ toggles = 0
    /\ \A n \in StoreNames : flags[n] = None
    /\ flags' = [n \in StoreNames |-> Some(DefaultFlags[n])]
    /\ UNCHANGED <<tasks, circuit_breaker, rate_limit, toggle, hasher, writes, eval,
                   last>>

\* toggle_feature_flag up to `flag.enabled = !flag.enabled`: the role check,
\* get_flag(&flag_name) with its NotFound, and the inversion of the local copy
toggle_feature_flag_get(t, name, admin) ==
    /\ tg_pc[t] = "idle"
    /\ toggles < MaxToggles
    /\ toggles' = toggles + 1
    /\ IF ~admin
       THEN UNCHANGED <<tg_pc, tg_name, tg_flag, last>>
       ELSE /\ last' = Some([op |-> "get_flag", name |-> name, flag |-> None,
                             before |-> flags[name], ret |-> Some(flags[name])])
            /\ IF flags[name] = None
               THEN UNCHANGED <<tg_pc, tg_name, tg_flag>>
               ELSE /\ tg_flag' = [tg_flag EXCEPT ![t] =
                                      Some([flags[name][1] EXCEPT !.enabled = ~@])]
                    /\ tg_name' = [tg_name EXCEPT ![t] = name]
                    /\ tg_pc' = [tg_pc EXCEPT ![t] = "set"]
    /\ UNCHANGED <<tasks, circuit_breaker, rate_limit, flags, hasher, writes, eval,
                   toggled>>

\* what toggle_feature_flag returns at the end of that step, if it returns
toggle_feature_flag_error(name, admin) ==
    IF ~admin
    THEN Some(ApiError("Unauthorized", "Admin access required"))
    ELSE IF flags[name] = None
         THEN Some(ApiError("NotFound", "Feature flag not found"))
         ELSE None

\* state.feature_flags.set_flag(flag.clone()).await?; ...; Ok(Json(flag))
toggle_feature_flag_set(t) ==
    /\ tg_pc[t] = "set"
    /\ store_insert(tg_name[t], tg_flag[t][1])
    /\ toggled' = [toggled EXCEPT ![tg_name[t]] = @ + 1]
    /\ tg_pc' = [tg_pc EXCEPT ![t] = "idle"]
    /\ tg_name' = [tg_name EXCEPT ![t] = ""]
    /\ tg_flag' = [tg_flag EXCEPT ![t] = None]
    /\ UNCHANGED <<tasks, circuit_breaker, rate_limit, hasher, writes, toggles>>

InitFlagStore ==
    /\ Constructed
    /\ config = CHOOSE c \in Configs : TRUE
    /\ hasher = [u \in Users |-> CHOOSE h \in HashValues : TRUE]

NextFlagStore ==
    \/ initialize_default_flags
    \/ \E n \in AskedNames, f \in StoreFlags : set_flag(n, f)
    \/ \E n \in AskedNames : delete_flag(n)
    \/ \E t \in tasks, n \in AskedNames, admin \in BOOLEAN :
          toggle_feature_flag_get(t, n, admin)
    \/ \E t \in tasks : toggle_feature_flag_set(t)

SpecFlagStore == InitFlagStore /\ [][NextFlagStore]_vars

TypeOKFlagStore ==
    /\ tg_pc \in [tasks -> {"idle", "set"}]
    /\ tg_name \in [tasks -> AskedNames \cup {""}]
    /\ \A t \in tasks : (tg_pc[t] = "set") <=> (tg_flag[t] # None)
    /\ toggles \in 0..MaxToggles
    /\ toggled \in [StoreNames -> 0..MaxToggles]
    /\ writes \in 0..MaxWrites

\* C23: whatever initialize_default_flags, set_flag, toggle and delete_flag
\* calls have run, every flag in the store has its rollout_percentage within
\* 0..100.
C23_RolloutInRange ==
    \A n \in StoreNames :
        flags[n] # None =>
            /\ flags[n][1].rollout_percentage >= 0
            /\ flags[n][1].rollout_percentage <= 100

\* b inverted k times
Inverted(b, k) == IF k % 2 = 0 THEN b ELSE ~b

\* C29: toggles lose no update: when every toggle request has completed and
\* nothing but toggles has written the store since initialize_default_flags,
\* the enabled value stored under each name is its original value inverted
\* once for every toggle stored under that name.
C29_NoLostToggle ==
    (writes = 0 /\ \A t \in tasks : tg_pc[t] = "idle") =>
        \A n \in StoreNames :
            flags[n] # None =>
                flags[n][1].enabled = Inverted(DefaultFlags[n].enabled, toggled[n])

\* C30: a toggle does not undo a deletion: the set_flag of a toggle writes
\* only under a name that is still in the store, so a flag deleted after the
\* toggle read it stays absent once both have completed.
C30_ToggleKeepsDeletion ==
    [][\A t \in tasks :
          (tg_pc[t] = "set" /\ tg_pc'[t] = "idle") => flags[tg_name[t]] # None
      ]_vars

InTransition(t) == pc[t] \in {"open_time", "closed_count", "closed_time"}

\* C26: an Open breaker has its failure time set: once the transitions in
\* progress have written both fields, state = Open comes with
\* last_failure_time # None, whatever the interleaving of transition_to_open
\* and transition_to_closed was.
C26_OpenHasFailureTime ==
    (state = "Open" /\ \A t \in tasks : ~InTransition(t)) =>
        last_failure_time # None

\* C27: a Closed breaker never carries a failure count that would already
\* have opened it: once every call in flight has returned, state = Closed
\* comes with failure_count < failure_threshold.
C27_ClosedBelowThreshold ==
    (AllIdle /\ state = "Closed") =>
        failure_count < config.failure_threshold

(* ----------------------- attribution of outcomes ------------------------- *)
\* No call is admitted while the breaker is Open (is_open returns true or
\* makes it HalfOpen first), so a call whose on_failure takes the Open arm
\* was admitted in an earlier period. In a HalfOpen period with one probe
\* admitted, a task still inside transition_to_half_open is that probe.
SoleProbe(u) ==
    /\ state = "HalfOpen"
    /\ ho_admitted = 1
    /\ pc[u] = "half_open_calls"

\* C28: the outcome of a call is applied only to the period in which the
\* call was admitted: a call admitted earlier that fails while the breaker
\* is Open leaves the recorded last_failure_time of that Open period as it
\* is (no transition being in progress), and while
\* the only probe of a HalfOpen period has not yet run its operation no
\* other call moves the breaker out of HalfOpen.
C28_OutcomeAppliedToItsPeriod ==
    [][/\ \A t \in tasks :
             (/\ pc[t] = "on_failure_time" /\ pc'[t] # "on_failure_time"
              /\ state = "Open" /\ last_failure_time # None
              /\ \A u \in tasks : ~InTransition(u)) =>
                last_failure_time' = last_failure_time
       /\ \A u \in tasks : SoleProbe(u) => state' = "HalfOpen"
      ]_vars

(* ------------------------------ lock order ------------------------------- *)
\* the configuration with the smallest values (one failure opens the breaker)
FirstConfig ==
    [failure_threshold |-> 1, recovery_timeout |-> 1, half_open_max_calls |-> 1]

\* the breaker shared by one task more than NumTasks
InitLocks ==
    /\ ConstructedWith(NumTasks + 1)
    /\ config = FirstConfig
    /\ hasher = [u \in Users |-> CHOOSE h \in HashValues : TRUE]

SpecLocks == InitLocks /\ [][Next]_vars

\* task t is at an acquisition its lock does not grant now
Blocked(t) ==
    \/ /\ pc[t] \in {"is_open", "on_success", "on_failure"}
       /\ ~CanRead(state_waiters, t)
    \/ /\ pc[t] \in {"half_open_state", "closed_state", "open_state"}
       /\ ~CanWrite(state_readers, state_waiters, t)
    \/ /\ pc[t] = "is_open_time"
       /\ ~CanRead(time_waiters, t)
    \/ /\ pc[t] \in {"closed_time", "open_time", "on_failure_time"}
       /\ ~CanWrite(time_readers, time_waiters, t)

\* C25: the breaker's locks never form a cyclic wait: as long as some call
\* is in progress, at least one call in progress is not blocked at a lock
\* (a lock is released only by a call in progress, so if all of them are
\* blocked none of them ever returns).
C25_NoCyclicWait ==
    (\E t \in tasks : ~Idle(t)) => \E t \in tasks : ~Idle(t) /\ ~Blocked(t)

====
